---- MODULE Spec2Model ----
(***************************************************************************)
(* The audit chain ledger (EnhancedAuditService) and the webhook           *)
(* dispatcher (WebhookService) of                                          *)
(* packages/ee/server-only/webhooks/webhook-service.ts, the document lock  *)
(* service (DocumentLockService) of                                        *)
(* packages/ee/server-only/document/document-lock-service.ts and the rate  *)
(* limiters (createRateLimiter, createTRPCRateLimiter), over the tables    *)
(* Document, DocumentAuditLog, Webhook, WebhookDelivery and WebhookRetry   *)
(* of packages/prisma/schema.prisma and the keys of the Redis store.       *)
(***************************************************************************)
EXTENDS Integers, Sequences, FiniteSets, TLC

VARIABLES
    now,               \* the clock read by new Date() and by the store's now()
    documentAuditLog,  \* table DocumentAuditLog, rows in insertion order (id = index)
    calls,             \* the logDocumentEvent calls in flight, per caller
    tamper,            \* history: the one direct edit made to a stored audit row
    reply,             \* history: how the last call that read the trail or failed ended
    document,          \* table Document, by id
    lockCalls,         \* the lockDocument and extendLock calls in flight, per user
    cleanup,           \* the cleanupExpiredLocks call in flight
    webhook,           \* table Webhook, by id
    webhookDelivery,   \* table WebhookDelivery, rows in insertion order
    webhookRetry,      \* table WebhookRetry, a set of rows
    dispatch,          \* the triggerWebhooks call in flight, or its returned summary
    dispatched,        \* the number of triggerWebhooks calls made so far
    retrySeq,          \* the autoincrement sequence of WebhookRetry ids
    retryRun,          \* the processRetryQueue runs in flight, per runner
    requests,          \* history: how many HTTP requests were sent, and the last one
    attempts,          \* history: the requests sent for each WebhookRetry row, by id
    storeFaults,       \* how many more handlers may find the store refusing writes
    redis,             \* the Redis keys of the rate limiters, by key
    rateCalls,         \* the rate limiter middleware calls in flight, per request
    admitted,          \* history: how many requests each limiter let through, by key
    options            \* the options that createRateLimiter was called with

docVars == <<document, lockCalls, cleanup>>

auditVars == <<documentAuditLog, calls, tamper, reply, docVars>>

webhookVars ==
    <<webhook, webhookDelivery, webhookRetry, retrySeq, dispatch, dispatched,
      retryRun, requests, attempts, storeFaults>>

rateVars == <<redis, rateCalls, admitted, options>>

vars == <<now, auditVars, webhookVars, rateVars>>

(***************************************************************************)
(* Bounds                                                                  *)
(***************************************************************************)
MaxTime == 2

MaxAuditRows == 3

Callers == {1, 2}

Documents == {1, 2}

(***************************************************************************)
(* JavaScript values, JSON.stringify and SHA-256                           *)
(***************************************************************************)
\* Every value is a pair <<kind, text>>, so that any two values compare.
Undefined == <<"undefined", "">>

Null == <<"null", "">>

Str(s) == <<"string", s>>

Num(n) == <<"number", n>>

\* a || b
OrElse(a, b) == IF a \in {Undefined, Null, Str(""), Num(0)} THEN b ELSE a

\* Date.prototype.toISOString: the ISO-8601 string of the millisecond t
ToISOString(t) == <<"isostring", t>>

\* JSON.stringify of an object given as its <<key, value>> pairs in insertion
\* order: a key whose value is undefined is left out, null is written as null.
JsonStringify(obj) == SelectSeq(obj, LAMBDA kv : kv[2][1] # "undefined")

\* createHash('sha256').update(s).digest('hex'), taken as collision free
Sha256(s) == <<"sha256", s>>

createEntryHash(entryData) == Sha256(JsonStringify(entryData))

(***************************************************************************)
(* EnhancedAuditService                                                    *)
(***************************************************************************)
\* The arguments of logDocumentEvent: each optional one given or left out.
Full == [userId |-> Num(7), recipientId |-> Num(9), data |-> Str("{}"),
         ip |-> Str("10.0.0.1"), userAgent |-> Str("ua")]

EventArgs ==
    { Full,
      [Full EXCEPT !.userId = Undefined],
      [Full EXCEPT !.data = Undefined],
      [Full EXCEPT !.userAgent = Undefined] }

EventTypes == {"DOCUMENT_SENT"}

IdleCall == [pc |-> "idle"]

NoReply == [op |-> "none"]

\* The users that call lockDocument.
Users == {1, 2}

\* A Document row that no user has locked.
UnlockedDocument(status) ==
    [exists |-> TRUE, status |-> status, isLocked |-> FALSE,
     lockedByUserId |-> Null, lockExpiresAt |-> Null]

\* A column of the store: an undefined value is stored as NULL.
Column(v) == IF v = Undefined THEN Null ELSE v

RowsOf(documentId) ==
    {i \in 1..Len(documentAuditLog) : documentAuditLog[i].documentId = documentId}

\* findFirst({where: {documentId}, orderBy: {createdAt: 'desc'}}): a row with the
\* greatest createdAt; which one among equal createdAt is the store's choice.
LatestRows(documentId) ==
    {i \in RowsOf(documentId) :
        \A j \in RowsOf(documentId) :
            documentAuditLog[j].createdAt <= documentAuditLog[i].createdAt}

\* The orders in which a store may return the rows S sorted by createdAt
\* ascending: rows of equal createdAt come in any order.
RECURSIVE SortedByCreatedAt(_)
SortedByCreatedAt(S) ==
    IF S = {}
    THEN {<< >>}
    ELSE UNION { { <<documentAuditLog[i]>> \o t : t \in SortedByCreatedAt(S \ {i}) } :
                   i \in { m \in S : \A j \in S : documentAuditLog[m].createdAt
                                                    <= documentAuditLog[j].createdAt } }

\* findMany({where: {documentId}, orderBy: {createdAt: 'asc'}})
Trails(documentId) == SortedByCreatedAt(RowsOf(documentId))

\* logDocumentEvent, up to the await of findFirst: the previous entry is read.
LogFindFirst(c, documentId, eventType, args) ==
    /\ calls[c].pc = "idle"
    /\ Len(documentAuditLog) + Cardinality({d \in Callers : calls[d].pc # "idle"})
          < MaxAuditRows
    /\ \E previousHash \in
            IF LatestRows(documentId) = {}
            THEN {Undefined}
            ELSE {documentAuditLog[i].hash : i \in LatestRows(documentId)} :
          calls' = [calls EXCEPT ![c] =
                      [pc |-> "hash", documentId |-> documentId,
                       eventType |-> eventType, args |-> args,
                       previousHash |-> previousHash]]
    /\ UNCHANGED <<rateVars, now, documentAuditLog, tamper, reply, docVars, webhookVars>>

\* logDocumentEvent, from new Date() to the call of create: the hash is computed.
EntryDataOfCall(call, timestamp) ==
    << <<"documentId", Num(call.documentId)>>,
       <<"userId", call.args.userId>>,
       <<"recipientId", call.args.recipientId>>,
       <<"eventType", Str(call.eventType)>>,
       <<"data", IF call.args.data # Undefined THEN call.args.data ELSE Null>>,
       <<"timestamp", ToISOString(timestamp)>>,
       <<"ip", call.args.ip>>,
       <<"userAgent", call.args.userAgent>>,
       <<"previousHash", OrElse(call.previousHash, Str(""))>> >>

LogHash(c) ==
    /\ calls[c].pc = "hash"
    /\ calls' = [calls EXCEPT ![c] =
                    [pc |-> "create", documentId |-> calls[c].documentId,
                     eventType |-> calls[c].eventType, args |-> calls[c].args,
                     hash |-> createEntryHash(EntryDataOfCall(calls[c], now))]]
    /\ UNCHANGED <<rateVars, now, documentAuditLog, tamper, reply, docVars, webhookVars>>

\* The row that create() stores: createdAt is the store's default now().
NewAuditRow(call, id, createdAt) ==
    [id |-> id,
     documentId |-> call.documentId,
     userId |-> Column(call.args.userId),
     recipientId |-> Column(call.args.recipientId),
     type |-> Str(call.eventType),
     data |-> IF call.args.data # Undefined THEN call.args.data ELSE Null,
     createdAt |-> createdAt,
     ip |-> Column(call.args.ip),
     userAgent |-> Column(call.args.userAgent),
     hash |-> call.hash]

\* logDocumentEvent, the create: the row is inserted and the call returns.
LogCreate(c) ==
    /\ calls[c].pc = "create"
    /\ documentAuditLog' =
          Append(documentAuditLog,
                 NewAuditRow(calls[c], Len(documentAuditLog) + 1, now))
    /\ calls' = [calls EXCEPT ![c] = IdleCall]
    /\ UNCHANGED <<rateVars, now, tamper, reply, docVars, webhookVars>>

\* How a logDocumentEvent call ends when an await of the store rejects: there
\* is no try block, the rejection is the call's.
Thrown(c, at) ==
    [op |-> "logDocumentEvent", caller |-> c, outcome |-> "threw", at |-> at]

\* logDocumentEvent when findFirst rejects.
LogFindFirstFails(c, documentId) ==
    /\ calls[c].pc = "idle"
    /\ storeFaults > 0
    /\ storeFaults' = storeFaults - 1
    /\ reply' = Thrown(c, "findFirst")
    /\ UNCHANGED <<rateVars, now, documentAuditLog, calls, tamper, docVars, webhook,
                   webhookDelivery, webhookRetry, retrySeq, dispatch, dispatched,
                   retryRun, requests, attempts>>

\* A create that rejects after the row was stored.
LogCreateFailsStored(c) ==
    /\ calls[c].pc = "create"
    /\ storeFaults > 0
    /\ storeFaults' = storeFaults - 1
    /\ documentAuditLog' =
          Append(documentAuditLog,
                 NewAuditRow(calls[c], Len(documentAuditLog) + 1, now))
    /\ calls' = [calls EXCEPT ![c] = IdleCall]
    /\ reply' = Thrown(c, "create")
    /\ UNCHANGED <<rateVars, now, tamper, docVars, webhook, webhookDelivery, webhookRetry,
                   retrySeq, dispatch, dispatched, retryRun, requests, attempts>>

\* logDocumentEvent when create rejects: no row is stored.
LogCreateFails(c) ==
    /\ calls[c].pc = "create"
    /\ storeFaults > 0
    /\ storeFaults' = storeFaults - 1
    /\ calls' = [calls EXCEPT ![c] = IdleCall]
    /\ reply' = Thrown(c, "create")
    /\ UNCHANGED <<rateVars, now, documentAuditLog, tamper, docVars, webhook,
                   webhookDelivery, webhookRetry, retrySeq, dispatch, dispatched,
                   retryRun, requests, attempts>>

\* The store deletes a Document row: the referential action of
\* DocumentAuditLog.document is Cascade, the entries of the document go too.
DeleteDocument(documentId) ==
    /\ document[documentId].exists
    /\ document' = [document EXCEPT ![documentId].exists = FALSE]
    /\ documentAuditLog' =
          SelectSeq(documentAuditLog, LAMBDA row : row.documentId # documentId)
    /\ UNCHANGED <<rateVars, now, calls, tamper, reply, lockCalls, cleanup,
                   webhookVars>>

\* The store deletes a User row: the referential action of
\* DocumentAuditLog.user is SetNull, the entries of the user lose their userId.
DeleteUser(userId) ==
    /\ \E i \in 1..Len(documentAuditLog) : documentAuditLog[i].userId = Num(userId)
    /\ documentAuditLog' =
          [i \in 1..Len(documentAuditLog) |->
              IF documentAuditLog[i].userId = Num(userId)
              THEN [documentAuditLog[i] EXCEPT !.userId = Null]
              ELSE documentAuditLog[i]]
    /\ UNCHANGED <<rateVars, now, calls, tamper, reply, docVars, webhookVars>>

(***************************************************************************)
(* DocumentLockService                                                     *)
(***************************************************************************)
\* The lockDurationMinutes argument of lockDocument; one unit of the clock is
\* a minute here.
LockDurations == {1, 15}

\* The positions of a lockDocument or extendLock call that is in flight.
LockPcs == {"check", "log", "extend", "extendLog"}

\* The audit entries that the calls in flight are still to write.
AuditRowsToCome ==
    Cardinality({v \in Users : lockCalls[v].pc \in LockPcs})
       + (IF cleanup.pc = "idle" THEN 0 ELSE Cardinality(cleanup.expiredLocks))

\* lockDocument, up to the await of findFirst: the Document row is read. The
\* user has access to the document.
LockFindFirst(u, documentId, lockDurationMinutes) ==
    /\ lockCalls[u].pc \notin LockPcs
    /\ Len(documentAuditLog) + AuditRowsToCome < MaxAuditRows
    /\ lockCalls' =
          [lockCalls EXCEPT ![u] =
              IF ~document[documentId].exists
              THEN [pc |-> "threw", documentId |-> documentId, code |-> "NOT_FOUND"]
              ELSE [pc |-> "check", documentId |-> documentId,
                    lockDurationMinutes |-> lockDurationMinutes,
                    document |-> document[documentId]]]
    /\ UNCHANGED <<rateVars, now, documentAuditLog, calls, tamper, reply,
                   document, cleanup, webhookVars>>

\* The condition under which lockDocument raises CONFLICT, on the row it read.
LockedByAnother(row, u) ==
    /\ row.isLocked
    /\ row.lockedByUserId # Num(u)
    /\ row.lockExpiresAt # Null
    /\ row.lockExpiresAt[2] > now

\* lockDocument, from the check of the row that was read to the update.
LockUpdate(u) ==
    /\ lockCalls[u].pc = "check"
    /\ IF LockedByAnother(lockCalls[u].document, u)
       THEN /\ lockCalls' =
                  [lockCalls EXCEPT ![u] =
                      [pc |-> "threw", documentId |-> lockCalls[u].documentId,
                       code |-> "CONFLICT"]]
            /\ UNCHANGED document
       ELSE /\ document' =
                  [document EXCEPT ![lockCalls[u].documentId] =
                      [@ EXCEPT !.isLocked = TRUE,
                                !.lockedByUserId = Num(u),
                                !.lockExpiresAt =
                                    Num(now + lockCalls[u].lockDurationMinutes)]]
            /\ lockCalls' =
                  [lockCalls EXCEPT ![u] =
                      [pc |-> "log", documentId |-> lockCalls[u].documentId,
                       lockExpiry |-> now + lockCalls[u].lockDurationMinutes]]
    /\ UNCHANGED <<rateVars, now, documentAuditLog, calls, tamper, reply,
                   cleanup, webhookVars>>

\* lockDocument, the audit entry (written without a hash) and the return of
\* the updated row.
LockLog(u) ==
    /\ lockCalls[u].pc = "log"
    /\ documentAuditLog' =
          Append(documentAuditLog,
                 [id |-> Len(documentAuditLog) + 1,
                  documentId |-> lockCalls[u].documentId,
                  userId |-> Num(u),
                  recipientId |-> Null,
                  type |-> Str("DOCUMENT_LOCKED"),
                  data |-> <<"string", <<"expiresAt", ToISOString(lockCalls[u].lockExpiry)>> >>,
                  createdAt |-> now,
                  ip |-> Null,
                  userAgent |-> Null,
                  hash |-> Null])
    /\ lockCalls' =
          [lockCalls EXCEPT ![u] =
              [pc |-> "returned", documentId |-> lockCalls[u].documentId,
               lockedByUserId |-> Num(u),
               lockExpiresAt |-> lockCalls[u].lockExpiry]]
    /\ UNCHANGED <<rateVars, now, calls, tamper, reply, document, cleanup,
                   webhookVars>>

\* extendLock, up to the await of findFirst: the Document row is read, if it
\* is locked by the user.
ExtendFindFirst(u, documentId, lockDurationMinutes) ==
    /\ lockCalls[u].pc \notin LockPcs
    /\ Len(documentAuditLog) + AuditRowsToCome < MaxAuditRows
    /\ lockCalls' =
          [lockCalls EXCEPT ![u] =
              IF \/ ~document[documentId].exists
                 \/ ~document[documentId].isLocked
                 \/ document[documentId].lockedByUserId # Num(u)
              THEN [pc |-> "threw", documentId |-> documentId, code |-> "NOT_FOUND"]
              ELSE [pc |-> "extend", documentId |-> documentId,
                    lockDurationMinutes |-> lockDurationMinutes]]
    /\ UNCHANGED <<rateVars, now, documentAuditLog, calls, tamper, reply,
                   document, cleanup, webhookVars>>

\* extendLock, the update: the new expiry is written to the row of the id.
ExtendUpdate(u) ==
    /\ lockCalls[u].pc = "extend"
    /\ document[lockCalls[u].documentId].exists
    /\ document' =
          [document EXCEPT ![lockCalls[u].documentId].lockExpiresAt =
              Num(now + lockCalls[u].lockDurationMinutes)]
    /\ lockCalls' =
          [lockCalls EXCEPT ![u] =
              [pc |-> "extendLog", documentId |-> lockCalls[u].documentId,
               lockExpiry |-> now + lockCalls[u].lockDurationMinutes]]
    /\ UNCHANGED <<rateVars, now, documentAuditLog, calls, tamper, reply,
                   cleanup, webhookVars>>

\* An audit entry as the lock service creates it: no hash, no ip, no user agent.
LockAuditRow(documentId, userId, type, data) ==
    [id |-> Len(documentAuditLog) + 1,
     documentId |-> documentId,
     userId |-> userId,
     recipientId |-> Null,
     type |-> Str(type),
     data |-> data,
     createdAt |-> now,
     ip |-> Null,
     userAgent |-> Null,
     hash |-> Null]

\* extendLock, the audit entry and the return of the updated row.
ExtendLog(u) ==
    /\ lockCalls[u].pc = "extendLog"
    /\ documentAuditLog' =
          Append(documentAuditLog,
                 LockAuditRow(lockCalls[u].documentId, Num(u),
                              "DOCUMENT_LOCK_EXTENDED",
                              <<"string", <<"expiresAt",
                                            ToISOString(lockCalls[u].lockExpiry)>> >>))
    /\ lockCalls' =
          [lockCalls EXCEPT ![u] =
              [pc |-> "extended", documentId |-> lockCalls[u].documentId,
               lockExpiresAt |-> lockCalls[u].lockExpiry]]
    /\ UNCHANGED <<rateVars, now, calls, tamper, reply, document, cleanup,
                   webhookVars>>

\* The documents that findMany of cleanupExpiredLocks returns.
ExpiredLocks ==
    {d \in Documents :
        /\ document[d].exists
        /\ document[d].isLocked
        /\ document[d].lockExpiresAt # Null
        /\ document[d].lockExpiresAt[2] < now}

\* cleanupExpiredLocks, up to the await of findMany; with no expired lock the
\* call returns a count of 0 and nothing changes.
CleanupFindMany ==
    /\ cleanup.pc = "idle"
    /\ ExpiredLocks # {}
    /\ Len(documentAuditLog) + AuditRowsToCome + Cardinality(ExpiredLocks)
          <= MaxAuditRows
    /\ cleanup' = [pc |-> "update", expiredLocks |-> ExpiredLocks]
    /\ UNCHANGED <<rateVars, now, documentAuditLog, calls, tamper, reply,
                   document, lockCalls, webhookVars>>

\* cleanupExpiredLocks, the updateMany: the rows of the ids that were read are
\* unlocked.
CleanupUpdateMany ==
    /\ cleanup.pc = "update"
    /\ document' =
          [d \in Documents |->
              IF d \in cleanup.expiredLocks /\ document[d].exists
              THEN [document[d] EXCEPT !.isLocked = FALSE,
                                       !.lockedByUserId = Null,
                                       !.lockExpiresAt = Null]
              ELSE document[d]]
    /\ cleanup' = [pc |-> "log", expiredLocks |-> cleanup.expiredLocks]
    /\ UNCHANGED <<rateVars, now, documentAuditLog, calls, tamper, reply,
                   lockCalls, webhookVars>>

\* The orders in which the creates of a Promise.all may reach the store.
RECURSIVE Orders(_)
Orders(S) ==
    IF S = {}
    THEN {<< >>}
    ELSE UNION { { <<d>> \o rest : rest \in Orders(S \ {d}) } : d \in S }

\* The rows of a sequence of documents appended to log, one after the other.
RECURSIVE WithExpiredRows(_, _)
WithExpiredRows(log, order) ==
    IF order = << >>
    THEN log
    ELSE WithExpiredRows(
            Append(log,
                   [LockAuditRow(order[1], Null, "DOCUMENT_LOCK_EXPIRED", Null)
                       EXCEPT !.id = Len(log) + 1]),
            Tail(order))

\* cleanupExpiredLocks, the audit entries, one per document that was read, and
\* the return of the count.
CleanupLog ==
    /\ cleanup.pc = "log"
    /\ \E order \in Orders(cleanup.expiredLocks) :
          documentAuditLog' = WithExpiredRows(documentAuditLog, order)
    /\ cleanup' = [pc |-> "idle"]
    /\ UNCHANGED <<rateVars, now, calls, tamper, reply, document, lockCalls,
                   webhookVars>>

\* verifyAuditTrailIntegrity
EntryDataOfRow(log, previousHash) ==
    << <<"documentId", Num(log.documentId)>>,
       <<"userId", log.userId>>,
       <<"recipientId", log.recipientId>>,
       <<"eventType", log.type>>,
       <<"data", log.data>>,
       <<"timestamp", ToISOString(log.createdAt)>>,
       <<"ip", log.ip>>,
       <<"userAgent", log.userAgent>>,
       <<"previousHash", previousHash>> >>

\* A loop that returns from inside its first iteration: only the first entry
\* is compared.
VerifyFirstOnly(auditLogs, i, previousHash) ==
    IF i > Len(auditLogs)
    THEN TRUE
    ELSE auditLogs[i].hash
            = createEntryHash(EntryDataOfRow(auditLogs[i], previousHash))

RECURSIVE VerifyFrom(_, _, _)
VerifyFrom(auditLogs, i, previousHash) ==
    IF i > Len(auditLogs)
    THEN TRUE
    ELSE LET log == auditLogs[i]
             calculatedHash == createEntryHash(EntryDataOfRow(log, previousHash))
         IN IF log.hash # calculatedHash
            THEN FALSE
            ELSE VerifyFrom(auditLogs, i + 1, log.hash)

verifyAuditTrailIntegrity(auditLogs) ==
    IF Len(auditLogs) = 0 THEN TRUE ELSE VerifyFrom(auditLogs, 1, Str(""))

\* getDocumentAuditTrail: the isValid of every result the store's ordering allows
IsValidResults(documentId) ==
    {verifyAuditTrailIntegrity(t) : t \in Trails(documentId)}

\* A getDocumentAuditTrail that raises when the trail does not verify.
TrailResultRaising(auditLogs) ==
    IF verifyAuditTrailIntegrity(auditLogs)
    THEN [outcome |-> "returned", auditLogs |-> auditLogs, isValid |-> TRUE]
    ELSE [outcome |-> "INTERNAL_SERVER_ERROR"]

\* getDocumentAuditTrail, after findMany gave auditLogs: what it returns.
TrailResult(auditLogs) ==
    [outcome |-> "returned", auditLogs |-> auditLogs,
     isValid |-> verifyAuditTrailIntegrity(auditLogs)]

\* getDocumentAuditTrail by a user with access to the document, if it exists.
GetDocumentAuditTrail(documentId) ==
    /\ \E auditLogs \in Trails(documentId) :
          reply' =
             IF ~document[documentId].exists
             THEN [op |-> "getDocumentAuditTrail", documentId |-> documentId,
                   outcome |-> "NOT_FOUND"]
             ELSE [op |-> "getDocumentAuditTrail", documentId |-> documentId,
                   stored |-> auditLogs] @@ TrailResult(auditLogs)
    /\ UNCHANGED <<rateVars, now, documentAuditLog, calls, tamper, docVars, webhookVars>>

\* generateCompletionCertificate by a user with access to the document: the
\* error raised, or the certificate built from the completion events.
CertificateResult(documentId, auditLogs) ==
    LET trail == TrailResult(auditLogs)
    IN IF ~document[documentId].exists \/ document[documentId].status # "COMPLETED"
       THEN [outcome |-> "NOT_FOUND"]
       ELSE IF trail.outcome # "returned"
       THEN [outcome |-> trail.outcome]
       ELSE IF ~trail.isValid
       THEN [outcome |-> "BAD_REQUEST"]
       ELSE [outcome |-> "returned",
             completionEvents |->
                SelectSeq(trail.auditLogs,
                          LAMBDA log : log.type = Str("COMPLETED_SIGNING"))]

GenerateCompletionCertificate(documentId) ==
    /\ \E auditLogs \in Trails(documentId) :
          reply' =
             [op |-> "generateCompletionCertificate", documentId |-> documentId,
              stored |-> auditLogs] @@ CertificateResult(documentId, auditLogs)
    /\ UNCHANGED <<rateVars, now, documentAuditLog, calls, tamper, docVars, webhookVars>>

NoCallInFlight == \A c \in Callers : calls[c].pc = "idle"

(***************************************************************************)
(* A direct edit of one stored audit row (the table is an ordinary mutable *)
(* table): one field of one row of a trail of three or more entries that   *)
(* verifies is changed.                                                    *)
(***************************************************************************)
NoTamper == [id |-> 0, field |-> "", middle |-> FALSE]

OtherHashes(row) ==
    ({Null, Str("")} \cup {documentAuditLog[j].hash : j \in 1..Len(documentAuditLog)})
        \ {row.hash}

\* The rows that differ from row in exactly one stored field, with the field.
Edits(row) ==
    {<<"userId", [row EXCEPT !.userId = v]>> :
        v \in {Null, Num(7), Num(8)} \ {row.userId}}
    \cup {<<"recipientId", [row EXCEPT !.recipientId = v]>> :
        v \in {Null, Num(9), Num(8)} \ {row.recipientId}}
    \cup {<<"type", [row EXCEPT !.type = v]>> :
        v \in {Str("DOCUMENT_SENT"), Str("DOCUMENT_DELETED")} \ {row.type}}
    \cup {<<"data", [row EXCEPT !.data = v]>> :
        v \in {Null, Str("{}"), Str("{x}")} \ {row.data}}
    \cup {<<"createdAt", [row EXCEPT !.createdAt = v]>> :
        v \in (0..MaxTime) \ {row.createdAt}}
    \cup {<<"ip", [row EXCEPT !.ip = v]>> :
        v \in {Null, Str("10.0.0.1"), Str("10.0.0.2")} \ {row.ip}}
    \cup {<<"userAgent", [row EXCEPT !.userAgent = v]>> :
        v \in {Null, Str("ua"), Str("ua2")} \ {row.userAgent}}
    \cup {<<"hash", [row EXCEPT !.hash = v]>> : v \in OtherHashes(row)}

Tamper(i) ==
    /\ tamper.id = 0
    /\ NoCallInFlight
    /\ i \in 1..Len(documentAuditLog)
    /\ \E t \in Trails(documentAuditLog[i].documentId) :
          /\ verifyAuditTrailIntegrity(t)
          /\ Len(t) >= 3
          /\ \E e \in Edits(documentAuditLog[i]) :
                /\ documentAuditLog' = [documentAuditLog EXCEPT ![i] = e[2]]
                /\ tamper' = [id |-> i, field |-> e[1],
                              middle |-> t[1].id # i /\ t[Len(t)].id # i]
    /\ UNCHANGED <<rateVars, now, calls, reply, docVars, webhookVars>>

(***************************************************************************)
(* WebhookService                                                          *)
(***************************************************************************)
WebhookIds == {1, 2}

WebhookEvents == {"document.created", "document.completed"}

\* The final status of an HTTP exchange; 0 stands for no response at all
\* (connection failure, or the 10 s timeout).
Statuses == {0, 200, 404, 503}

MaxDispatches == 1

MaxStoreFaults == 1

\* The callers of processRetryQueue: a second one for runs that overlap.
Runners == {1, 2}

\* The cap of retryCount in the query and in the failure branch of
\* processRetryQueue.
MaxRetries == 5

\* The backoff table of calculateNextRetryTime, in minutes.
RetryDelays == <<1, 5, 15, 30, 60>>

DefaultDelay == 60

\* axios resolves on a 2xx response and rejects on anything else.
IsSuccess(status) == status >= 200 /\ status < 300

\* response.statusText, or error.message when there is no response
StatusText(statusCode) ==
    CASE statusCode = 0 -> "error.message"
      [] statusCode = 200 -> "OK"
      [] statusCode = 404 -> "Not Found"
      [] statusCode = 408 -> "Request Timeout"
      [] statusCode = 429 -> "Too Many Requests"
      [] statusCode = 503 -> "Service Unavailable"
      [] OTHER -> "status text"

\* A classification that retries after every failure but a 404.
shouldRetryUnlessNotFound(statusCode) == statusCode # 404

shouldRetry(statusCode) ==
    \/ statusCode = 0
    \/ statusCode >= 500
    \/ statusCode = 429
    \/ statusCode = 408

\* A lookup that starts at the second entry of the table.
DelayMinutesShifted(retryCount) ==
    IF retryCount + 2 \in DOMAIN RetryDelays
    THEN RetryDelays[retryCount + 2]
    ELSE DefaultDelay

\* [1, 5, 15, 30, 60][retryCount] || 60
DelayMinutes(retryCount) ==
    IF retryCount + 1 \in DOMAIN RetryDelays /\ RetryDelays[retryCount + 1] # 0
    THEN RetryDelays[retryCount + 1]
    ELSE DefaultDelay

\* A backoff that doubles: 1, 2, 4, 8, 16 minutes.
calculateNextRetryTimeDoubling(retryCount) == now + 2 ^ retryCount

calculateNextRetryTime(retryCount) == now + DelayMinutes(retryCount)

\* generateId: a fresh token per call
generateId(n) == <<"wh", n>>

\* JSON.stringify(payload) and JSON.parse of it
StringifyPayload(payload) ==
    << <<"id", payload.id>>, <<"event", payload.event>>,
       <<"createdAt", payload.createdAt>>, <<"data", payload.data>> >>

\* A parse that gives the payload an id of its own.
ParsePayloadNewId(text) ==
    [id |-> <<"wh", 0>>, event |-> text[2][2], createdAt |-> text[3][2],
     data |-> text[4][2]]

ParsePayload(text) ==
    [id |-> text[1][2], event |-> text[2][2], createdAt |-> text[3][2],
     data |-> text[4][2]]

\* A stored payload text that JSON.parse rejects: the empty text.
MalformedPayload == << >>

\* Whether JSON.parse accepts the text.
IsJson(text) == text # MalformedPayload

\* A signature that depends on the secret only.
createSignatureOfSecret(secret, payload) == <<"hmac-sha256", secret, << >> >>

\* createHmac('sha256', secret).update(payload).digest('hex')
createSignature(secret, payload) == <<"hmac-sha256", secret, payload>>

\* The outcome of a store write: refused only while the store has faults.
StoreOk == IF storeFaults > 0 THEN BOOLEAN ELSE {TRUE}

\* The faults left after a handler whose writes were accepted as oks says.
FaultsAfter(oks) == IF FALSE \in oks THEN storeFaults - 1 ELSE storeFaults

Fulfilled(value) == [status |-> "fulfilled", value |-> value]

Rejected == [status |-> "rejected"]

\* A loop that keeps the outcomes of the fulfilled handlers only.
SettleFulfilled(results, key, outcome) ==
    IF outcome.status = "fulfilled"
    THEN [x \in DOMAIN results \cup {key} |->
            IF x = key THEN outcome ELSE results[x]]
    ELSE results

\* A loop that stops collecting at the first rejected handler.
SettleUntilRejected(results, key, outcome) ==
    IF \E x \in DOMAIN results : results[x].status = "rejected"
    THEN results
    ELSE [x \in DOMAIN results \cup {key} |->
            IF x = key THEN outcome ELSE results[x]]

\* Promise.allSettled: the outcome of every handler, fulfilled or rejected,
\* is an entry of the results.
Settle(results, key, outcome) ==
    [x \in DOMAIN results \cup {key} |->
        IF x = key THEN outcome ELSE results[x]]

\* logWebhookDelivery: the row created
DeliveryRow(webhookId, deliveryId, success, statusCode, statusText) ==
    [webhookId |-> webhookId, deliveryId |-> deliveryId, success |-> success,
     statusCode |-> statusCode, statusText |-> statusText]

\* The HTTP request of an initial delivery (no retry count header: -1).
InitialRequest(wh, payload) ==
    [webhookId |-> wh.id,
     body |-> StringifyPayload(payload),
     signature |-> createSignature(wh.secret, StringifyPayload(payload)),
     event |-> payload.event,
     delivery |-> payload.id,
     retryCount |-> -1]

\* The history after one more request was sent.
Sent(request) == [count |-> requests.count + 1, last |-> request]

\* A handler that returns the failure without a delivery row.
InitialOutcomeUnlogged(wh, payload, status, okLogTry, okLogCatch, okAdd) ==
    IF IsSuccess(status)
    THEN [logs |-> <<DeliveryRow(wh.id, payload.id, TRUE, status, StatusText(status))>>,
          enqueue |-> FALSE,
          result |-> Fulfilled([webhookId |-> wh.id, success |-> TRUE,
                                statusCode |-> status])]
    ELSE [logs |-> << >>,
          enqueue |-> shouldRetry(status),
          result |-> Fulfilled([webhookId |-> wh.id, success |-> FALSE,
                                statusCode |-> status,
                                error |-> StatusText(status)])]

\* The handler of one subscription in triggerWebhooks, after the response
\* (status) came: the delivery rows written, whether a retry task is created,
\* and how the handler's promise settles. okLogTry, okLogCatch and okAdd say
\* whether the store accepts the write in the try block, the one in the catch
\* block and the one of addToRetryQueue.
InitialOutcome(wh, payload, status, okLogTry, okLogCatch, okAdd) ==
    IF IsSuccess(status) /\ okLogTry
    THEN [logs |-> <<DeliveryRow(wh.id, payload.id, TRUE, status, StatusText(status))>>,
          enqueue |-> FALSE,
          result |-> Fulfilled([webhookId |-> wh.id, success |-> TRUE,
                                statusCode |-> status])]
    ELSE LET \* error.response?.status || 0
             statusCode == IF IsSuccess(status) THEN 0 ELSE status
             statusText == StatusText(statusCode)
             row == DeliveryRow(wh.id, payload.id, FALSE, statusCode, statusText)
         IN IF ~okLogCatch
            THEN [logs |-> << >>, enqueue |-> FALSE, result |-> Rejected]
            ELSE IF shouldRetry(statusCode) /\ ~okAdd
            THEN [logs |-> <<row>>, enqueue |-> FALSE, result |-> Rejected]
            ELSE [logs |-> <<row>>,
                  enqueue |-> shouldRetry(statusCode),
                  result |-> Fulfilled([webhookId |-> wh.id, success |-> FALSE,
                                        statusCode |-> statusCode,
                                        error |-> statusText])]

\* addToRetryQueue: the row created
NewRetryRow(id, webhookId, payload) ==
    [id |-> id,
     webhookId |-> webhookId,
     payload |-> StringifyPayload(payload),
     nextRetryAt |-> calculateNextRetryTime(0),
     retryCount |-> 0,
     lastError |-> "null"]

IdleDispatch == [pc |-> "idle"]

\* The teamId argument of triggerWebhooks: left out, or the id of a team.
TeamScopes == {Undefined, Num(1), Num(2)}

\* The truth value that a conditional gives to a number or to undefined.
Truthy(v) == v[1] = "number" /\ v[2] # 0

\* A selection by the event alone.
MatchingWebhooksOfEvent(event, teamId) ==
    {w \in WebhookIds : webhook[w].exists /\ event \in webhook[w].events}

\* The subscriptions that findMany selects for an event.
MatchingWebhooks(event, teamId) ==
    {w \in WebhookIds :
        /\ webhook[w].exists
        /\ webhook[w].isActive
        /\ event \in webhook[w].events
        /\ Truthy(teamId) => webhook[w].teamId = teamId}

\* triggerWebhooks, up to the start of the deliveries: the subscriptions are
\* selected and the payload is built; with no subscription the call returns.
TriggerWebhooks(event, teamId) ==
    /\ dispatch.pc = "idle"
    /\ dispatched < MaxDispatches
    /\ dispatched' = dispatched + 1
    /\ dispatch' =
          IF MatchingWebhooks(event, teamId) = {}
          THEN [pc |-> "returned", event |-> event, teamId |-> teamId,
                webhooks |-> {},
                summary |-> [success |-> TRUE, count |-> 0]]
          ELSE [pc |-> "sending", event |-> event, teamId |-> teamId,
                webhooks |-> MatchingWebhooks(event, teamId),
                snapshot |-> [w \in MatchingWebhooks(event, teamId) |->
                                [id |-> w, secret |-> webhook[w].secret]],
                payload |-> [id |-> generateId(dispatched + 1), event |-> event,
                             createdAt |-> ToISOString(now), data |-> "data"],
                pending |-> MatchingWebhooks(event, teamId),
                sent |-> [w \in MatchingWebhooks(event, teamId) |-> 0],
                results |-> << >>]
    /\ UNCHANGED <<rateVars, now, auditVars, webhook, webhookDelivery, webhookRetry,
                   retrySeq, retryRun, requests, attempts, storeFaults>>

\* triggerWebhooks, the handler of one subscription: the request, the delivery
\* row, the retry task.
Deliver(w) ==
    /\ dispatch.pc = "sending"
    /\ w \in dispatch.pending
    /\ \E status \in Statuses, okLogTry \in StoreOk, okLogCatch \in StoreOk,
          okAdd \in StoreOk :
          LET wh == dispatch.snapshot[w]
              \* WebhookDelivery.webhook and WebhookRetry.webhook are
              \* foreign keys: a create for a deleted subscription fails.
              out == InitialOutcome(wh, dispatch.payload, status,
                                    okLogTry /\ webhook[w].exists,
                                    okLogCatch /\ webhook[w].exists,
                                    okAdd /\ webhook[w].exists)
          IN /\ requests' = Sent(InitialRequest(wh, dispatch.payload))
             /\ webhookDelivery' = webhookDelivery \o out.logs
             /\ webhookRetry' =
                   IF out.enqueue
                   THEN webhookRetry
                          \cup {NewRetryRow(retrySeq + 1, w, dispatch.payload)}
                   ELSE webhookRetry
             /\ retrySeq' = IF out.enqueue THEN retrySeq + 1 ELSE retrySeq
             /\ attempts' = IF out.enqueue THEN Append(attempts, 0) ELSE attempts
             /\ dispatch' =
                   [dispatch EXCEPT
                      !.pending = @ \ {w},
                      !.sent[w] = @ + 1,
                      !.results = Settle(@, w, out.result)]
             /\ storeFaults' = FaultsAfter({okLogTry, okLogCatch, okAdd})
    /\ UNCHANGED <<rateVars, now, auditVars, webhook, dispatched, retryRun>>

\* triggerWebhooks, the return after Promise.allSettled
TriggerReturn ==
    /\ dispatch.pc = "sending"
    /\ dispatch.pending = {}
    /\ dispatch' =
          [pc |-> "returned", event |-> dispatch.event,
           teamId |-> dispatch.teamId,
           webhooks |-> dispatch.webhooks,
           payload |-> dispatch.payload,
           sent |-> dispatch.sent,
           summary |-> [success |-> TRUE,
                        count |-> Cardinality(dispatch.webhooks),
                        results |-> dispatch.results]]
    /\ UNCHANGED <<rateVars, now, auditVars, webhook, webhookDelivery, webhookRetry,
                   retrySeq, dispatched, retryRun, requests, attempts, storeFaults>>

\* updateWebhook with data {isActive}
UpdateWebhook(w, isActive) ==
    /\ webhook[w].exists
    /\ webhook[w].isActive # isActive
    /\ webhook' = [webhook EXCEPT ![w].isActive = isActive]
    /\ UNCHANGED <<rateVars, now, auditVars, webhookDelivery, webhookRetry, retrySeq,
                   dispatch, dispatched, retryRun, requests, attempts, storeFaults>>

\* The secret that updateWebhook with data {secret} stores.
NewSecret(w) == <<"rotated", w>>

\* updateWebhook with data {secret}
RotateSecret(w) ==
    /\ webhook[w].exists
    /\ webhook[w].secret # NewSecret(w)
    /\ webhook' = [webhook EXCEPT ![w].secret = NewSecret(w)]
    /\ UNCHANGED <<rateVars, now, auditVars, webhookDelivery, webhookRetry, retrySeq,
                   dispatch, dispatched, retryRun, requests, attempts, storeFaults>>

\* A delete that leaves the rows of the other tables where they are.
DeleteWebhookKeepingRows(w) ==
    /\ webhook[w].exists
    /\ webhook' = [webhook EXCEPT ![w].exists = FALSE]
    /\ UNCHANGED <<rateVars, now, auditVars, webhookDelivery, webhookRetry,
                   retrySeq, dispatch, dispatched, retryRun, requests, attempts,
                   storeFaults>>

\* deleteWebhook by the owner: the row is deleted, and with it, by the
\* referential actions of WebhookDelivery.webhook and WebhookRetry.webhook
\* (Cascade), the deliveries and the retry tasks of the subscription.
DeleteWebhook(w) ==
    /\ webhook[w].exists
    /\ webhook' = [webhook EXCEPT ![w].exists = FALSE]
    /\ webhookDelivery' =
          SelectSeq(webhookDelivery, LAMBDA row : row.webhookId # w)
    /\ webhookRetry' = {t \in webhookRetry : t.webhookId # w}
    /\ UNCHANGED <<rateVars, now, auditVars, retrySeq, dispatch, dispatched,
                   retryRun, requests, attempts, storeFaults>>

\* The HTTP request of a retry: the body is the parsed stored payload,
\* serialized again; the signature is computed over the stored text.
RetryRequest(retry, wh) ==
    [webhookId |-> wh.id,
     body |-> StringifyPayload(ParsePayload(retry.payload)),
     signature |-> createSignature(wh.secret, retry.payload),
     event |-> ParsePayload(retry.payload).event,
     delivery |-> ParsePayload(retry.payload).id,
     retryCount |-> retry.retryCount]

\* A catch block that gives a task up only after a failure that is not
\* retryable.
RetryFailureNoCeiling(retry, statusCode, rowExists, okWrite) ==
    LET newRetryCount == retry.retryCount + 1
        statusText == StatusText(statusCode)
    IN [op |-> IF ~shouldRetry(statusCode) THEN "delete" ELSE "update",
        row |-> [retry EXCEPT
                   !.retryCount = newRetryCount,
                   !.nextRetryAt = calculateNextRetryTime(newRetryCount),
                   !.lastError = statusText],
        result |-> Fulfilled([retryId |-> retry.id, success |-> FALSE,
                              statusCode |-> statusCode,
                              error |-> statusText,
                              retryCount |-> newRetryCount])]

\* A catch block that reschedules a task without storing the error.
RetryFailureKeepingError(retry, statusCode, rowExists, okWrite) ==
    LET newRetryCount == retry.retryCount + 1
        statusText == StatusText(statusCode)
    IN [op |-> IF newRetryCount >= MaxRetries \/ ~shouldRetry(statusCode)
               THEN "delete"
               ELSE "update",
        row |-> [retry EXCEPT
                   !.retryCount = newRetryCount,
                   !.nextRetryAt = calculateNextRetryTime(newRetryCount)],
        result |-> Fulfilled([retryId |-> retry.id, success |-> FALSE,
                              statusCode |-> statusCode,
                              error |-> statusText,
                              retryCount |-> newRetryCount])]

\* The catch block of the handler of one task in processRetryQueue, for the
\* status code taken from the error: the task is deleted or updated, unless
\* the store refuses (the row is gone, or a fault), which rejects the promise.
RetryFailure(retry, statusCode, rowExists, okWrite) ==
    LET newRetryCount == retry.retryCount + 1
        statusText == StatusText(statusCode)
    IN IF ~(rowExists /\ okWrite)
       THEN [op |-> "none", result |-> Rejected]
       ELSE [op |-> IF newRetryCount >= MaxRetries \/ ~shouldRetry(statusCode)
                    THEN "delete"
                    ELSE "update",
             row |-> [retry EXCEPT
                        !.retryCount = newRetryCount,
                        !.nextRetryAt = calculateNextRetryTime(newRetryCount),
                        !.lastError = statusText],
             result |-> Fulfilled([retryId |-> retry.id, success |-> FALSE,
                                   statusCode |-> statusCode,
                                   error |-> statusText,
                                   retryCount |-> newRetryCount])]

\* A handler that sends the request whatever the subscription's isActive.
RetryOutcomeIgnoringActive(retry, wh, rowExists, status, okFirst, okDelete, okCatch) ==
    IF IsSuccess(status)
    THEN [sent |-> TRUE,
          logs |-> <<DeliveryRow(wh.id, ParsePayload(retry.payload).id, TRUE,
                                 status, StatusText(status))>>,
          op |-> "delete",
          result |-> Fulfilled([retryId |-> retry.id, success |-> TRUE,
                                statusCode |-> status])]
    ELSE [sent |-> TRUE, logs |-> << >>]
            @@ RetryFailure(retry, status, rowExists, okCatch)

\* A handler that leaves the task of an inactive subscription where it is.
RetryOutcomeSkippingInactive(retry, wh, rowExists, status, okFirst, okDelete, okCatch) ==
    IF ~wh.isActive
    THEN [sent |-> FALSE, logs |-> << >>, op |-> "none",
          result |-> Fulfilled([retryId |-> retry.id, success |-> FALSE,
                                reason |-> "Webhook no longer active"])]
    ELSE RetryOutcomeIgnoringActive(retry, wh, rowExists, status, okFirst,
                                    okDelete, okCatch)

\* A handler that keeps the task of a delivered retry.
RetryOutcomeKeepingDelivered(retry, wh, rowExists, status, okFirst, okDelete, okCatch) ==
    IF wh.isActive /\ IsSuccess(status)
    THEN [sent |-> TRUE,
          logs |-> <<DeliveryRow(wh.id, ParsePayload(retry.payload).id, TRUE,
                                 status, StatusText(status))>>,
          op |-> "none",
          result |-> Fulfilled([retryId |-> retry.id, success |-> TRUE,
                                statusCode |-> status])]
    ELSE RetryOutcomeSkippingInactive(retry, wh, rowExists, status, okFirst,
                                      okDelete, okCatch)

\* The handler of one task in processRetryQueue: whether a request is sent,
\* the delivery rows written, what happens to the task and how the handler's
\* promise settles. retry and wh are the rows as read by findMany, rowExists
\* says whether the task is still stored, status is the response, okFirst,
\* okDelete and okCatch say whether the store accepts the first write of the
\* try block, the delete after a logged success and the write of the catch
\* block. A stored payload that JSON.parse rejects ends in the catch block
\* before any request.
RetryOutcome(retry, wh, rowExists, status, okFirst, okDelete, okCatch) ==
    LET failure(statusCode) == RetryFailure(retry, statusCode, rowExists, okCatch)
        successRow == DeliveryRow(wh.id, ParsePayload(retry.payload).id, TRUE,
                                  status, StatusText(status))
    IN IF ~wh.isActive
       THEN IF rowExists /\ okFirst
            THEN [sent |-> FALSE, logs |-> << >>, op |-> "delete",
                  result |-> Fulfilled([retryId |-> retry.id, success |-> FALSE,
                                        reason |-> "Webhook no longer active"])]
            ELSE [sent |-> FALSE, logs |-> << >>] @@ failure(0)
       ELSE IF ~IsJson(retry.payload)
       THEN [sent |-> FALSE, logs |-> << >>] @@ failure(0)
       ELSE IF ~IsSuccess(status)
       THEN [sent |-> TRUE, logs |-> << >>] @@ failure(status)
       ELSE IF ~okFirst
       THEN [sent |-> TRUE, logs |-> << >>] @@ failure(0)
       ELSE IF ~(rowExists /\ okDelete)
       THEN [sent |-> TRUE, logs |-> <<successRow>>] @@ failure(0)
       ELSE [sent |-> TRUE, logs |-> <<successRow>>, op |-> "delete",
             result |-> Fulfilled([retryId |-> retry.id, success |-> TRUE,
                                   statusCode |-> status])]

\* A direct edit of the store leaves a task with a payload text that does not
\* parse.
CorruptPayload(id) ==
    /\ \A t \in webhookRetry : IsJson(t.payload)
    /\ \E t \in webhookRetry :
          /\ t.id = id
          /\ webhookRetry' =
                (webhookRetry \ {t}) \cup {[t EXCEPT !.payload = MalformedPayload]}
    /\ UNCHANGED <<rateVars, now, auditVars, webhook, webhookDelivery, retrySeq,
                   dispatch, dispatched, retryRun, requests, attempts, storeFaults>>

IdleRun == [pc |-> "idle"]

\* A query that leaves nextRetryAt out of its where clause.
DueRetriesAnyTime ==
    {[retry |-> t, webhook |-> [id |-> t.webhookId,
                                isActive |-> webhook[t.webhookId].isActive,
                                secret |-> webhook[t.webhookId].secret]] :
        t \in {u \in webhookRetry : u.retryCount < MaxRetries}}

\* The rows that findMany of processRetryQueue returns, each with its webhook.
DueRetries ==
    {[retry |-> t, webhook |-> [id |-> t.webhookId,
                                isActive |-> webhook[t.webhookId].isActive,
                                secret |-> webhook[t.webhookId].secret]] :
        t \in {u \in webhookRetry : u.nextRetryAt <= now /\ u.retryCount < MaxRetries}}

\* processRetryQueue, up to the start of the handlers: the due tasks are read;
\* with no due task the run returns.
ProcessRetryQueue(r) ==
    /\ retryRun[r].pc = "idle"
    /\ retryRun' =
          [retryRun EXCEPT ![r] =
              IF DueRetries = {}
              THEN [pc |-> "returned", retries |-> {},
                    summary |-> [success |-> TRUE, count |-> 0]]
              ELSE [pc |-> "processing", retries |-> DueRetries,
                    pending |-> DueRetries, results |-> << >>]]
    /\ UNCHANGED <<rateVars, now, auditVars, webhook, webhookDelivery, webhookRetry,
                   retrySeq, dispatch, dispatched, requests, attempts, storeFaults>>

\* The tasks of run r whose handler has not run yet.
PendingRetries(r) ==
    IF retryRun[r].pc = "processing" THEN retryRun[r].pending ELSE {}

\* processRetryQueue, the handler of one task.
ProcessRetry(r, item) ==
    /\ retryRun[r].pc = "processing"
    /\ item \in retryRun[r].pending
    /\ \E status \in Statuses, okFirst \in StoreOk, okDelete \in StoreOk,
          okCatch \in StoreOk :
          LET retry == item.retry
              stored == {t \in webhookRetry : t.id = retry.id}
              out == RetryOutcome(retry, item.webhook, stored # {}, status,
                                  okFirst /\ webhook[retry.webhookId].exists,
                                  okDelete, okCatch)
          IN /\ requests' =
                   IF out.sent
                   THEN Sent(RetryRequest(retry, item.webhook))
                   ELSE requests
             /\ attempts' =
                   IF out.sent
                   THEN [attempts EXCEPT ![retry.id] = @ + 1]
                   ELSE attempts
             /\ webhookDelivery' = webhookDelivery \o out.logs
             /\ webhookRetry' =
                   CASE out.op = "delete" -> webhookRetry \ stored
                     [] out.op = "update" ->
                          (webhookRetry \ stored)
                             \cup {[t EXCEPT
                                      !.retryCount = out.row.retryCount,
                                      !.nextRetryAt = out.row.nextRetryAt,
                                      !.lastError = out.row.lastError] :
                                    t \in stored}
                     [] OTHER -> webhookRetry
             /\ retryRun' =
                   [retryRun EXCEPT
                      ![r].pending = @ \ {item},
                      ![r].results = Settle(@, retry.id, out.result)]
             /\ storeFaults' = FaultsAfter({okFirst, okDelete, okCatch})
    /\ UNCHANGED <<rateVars, now, auditVars, webhook, retrySeq, dispatch, dispatched>>

\* processRetryQueue, the return after Promise.allSettled
RetryReturn(r) ==
    /\ retryRun[r].pc = "processing"
    /\ retryRun[r].pending = {}
    /\ retryRun' =
          [retryRun EXCEPT ![r] =
              [pc |-> "returned",
               retries |-> retryRun[r].retries,
               summary |-> [success |-> TRUE,
                            count |-> Cardinality(retryRun[r].retries),
                            results |-> retryRun[r].results]]]
    /\ UNCHANGED <<rateVars, now, auditVars, webhook, webhookDelivery, webhookRetry,
                   retrySeq, dispatch, dispatched, requests, attempts, storeFaults>>

\* The caller of triggerWebhooks takes the returned summary.
TriggerDone ==
    /\ dispatch.pc = "returned"
    /\ dispatch' = IdleDispatch
    /\ UNCHANGED <<rateVars, now, auditVars, webhook, webhookDelivery, webhookRetry,
                   retrySeq, dispatched, retryRun, requests, attempts, storeFaults>>

\* The caller of processRetryQueue takes the returned summary.
RetryDone(r) ==
    /\ retryRun[r].pc = "returned"
    /\ retryRun' = [retryRun EXCEPT ![r] = IdleRun]
    /\ UNCHANGED <<rateVars, now, auditVars, webhook, webhookDelivery, webhookRetry,
                   retrySeq, dispatch, dispatched, requests, attempts, storeFaults>>

\* Time passes until a stored task falls due. One unit of the clock is a
\* minute, the unit of the backoff table: longer than a call is in flight
\* (each request is given 10 seconds).
AdvanceClock ==
    /\ dispatch.pc = "idle"
    /\ \A r \in Runners : retryRun[r].pc = "idle"
    /\ \E t \in webhookRetry : t.nextRetryAt > now /\ now' = t.nextRetryAt
    /\ UNCHANGED <<rateVars, auditVars, webhookVars>>

(***************************************************************************)
(* The rate limiters: createRateLimiter and createTRPCRateLimiter          *)
(***************************************************************************)
\* The requests that reach the limiters, all from one address.
Requests == {1, 2, 3}

\* The max option of the limiters.
RateMax == 2

\* The default windowMs, 15 * 60 * 1000, in minutes.
WindowMinutes == 15

Limiters == {"api", "trpc"}

\* `rate-limit:${keyGenerator(req)}` and `rate-limit:trpc:${ip}`
RateKey(limiter) ==
    IF limiter = "api" THEN "rate-limit:ip" ELSE "rate-limit:trpc:ip"

RateKeys == {RateKey(l) : l \in Limiters}

\* The options of createRateLimiter that the model varies.
RateOptions ==
    [handler : BOOLEAN, skipSuccessfulRequests : BOOLEAN,
     skipFailedRequests : BOOLEAN]

\* The options when none is given: no handler, nothing skipped.
DefaultOptions ==
    [handler |-> FALSE, skipSuccessfulRequests |-> FALSE,
     skipFailedRequests |-> FALSE]

\* A key that is not stored.
NoKey == [value |-> Null, expireAt |-> Null]

\* A stored key is there until its time to live is over.
Live(key) ==
    /\ redis[key].value # Null
    /\ redis[key].expireAt # Null => redis[key].expireAt[2] > now

\* redis.get(key): the stored decimal string, or null
RedisGet(key) == IF Live(key) THEN redis[key].value ELSE Null

\* redis.incr(key) and redis.decr(key): a missing key counts from 0 and is
\* created without a time to live.
RedisAdd(key, by) ==
    IF Live(key)
    THEN [redis EXCEPT ![key].value = Str(@[2] + by)]
    ELSE [redis EXCEPT ![key] = [value |-> Str(by), expireAt |-> Null]]

\* redis.expire(key, seconds) after the Redis state store
RedisExpire(store, key, minutes) ==
    IF store[key].value # Null
          /\ (store[key].expireAt # Null => store[key].expireAt[2] > now)
    THEN [store EXCEPT ![key].expireAt = Num(now + minutes)]
    ELSE store

\* currentCount ? parseInt(currentCount, 10) : 0
ParseCount(currentCount) == IF currentCount = Null THEN 0 ELSE currentCount[2]

\* Both middlewares, up to the await of redis.get: the counter is read.
RateGet(r, limiter) ==
    /\ rateCalls[r].pc = "idle"
    /\ rateCalls' =
          [rateCalls EXCEPT ![r] =
              [pc |-> "got", limiter |-> limiter, key |-> RateKey(limiter),
               count |-> ParseCount(RedisGet(RateKey(limiter)))]]
    /\ UNCHANGED <<now, auditVars, webhookVars, redis, admitted, options>>

\* What the check of the count that was read does to the counter and to the
\* call: over the limit the handler option answers, or TOO_MANY_REQUESTS is
\* thrown, which createRateLimiter catches itself (TRPCError is an Error);
\* under the limit the counter is incremented.
RateChecked(call, opts) ==
    IF call.count >= RateMax
    THEN IF call.limiter = "api" /\ opts.handler
         THEN [by |-> 0, pc |-> "done", outcome |-> "handled"]
         ELSE [by |-> IF call.limiter = "api" /\ opts.skipFailedRequests
                      THEN -1 ELSE 0,
               pc |-> "done", outcome |-> "TOO_MANY_REQUESTS"]
    ELSE [by |-> 1, pc |-> "incremented", outcome |-> "none"]

\* Both middlewares, from the count that was read to the next Redis command.
RateCheck(r) ==
    /\ rateCalls[r].pc = "got"
    /\ LET checked == RateChecked(rateCalls[r], options)
       IN /\ redis' = IF checked.by = 0
                      THEN redis
                      ELSE RedisAdd(rateCalls[r].key, checked.by)
          /\ rateCalls' =
                [rateCalls EXCEPT ![r] =
                    [pc |-> checked.pc, limiter |-> rateCalls[r].limiter,
                     key |-> rateCalls[r].key, count |-> rateCalls[r].count,
                     outcome |-> checked.outcome]]
    /\ UNCHANGED <<now, auditVars, webhookVars, admitted, options>>

\* Both middlewares after the increment: the first request of a window sets
\* the expiry; then createRateLimiter calls next(), and the tRPC middleware
\* returns.
RatePass(r) ==
    /\ rateCalls[r].pc = "incremented"
    /\ redis' = IF rateCalls[r].count = 0
                THEN RedisExpire(redis, rateCalls[r].key, WindowMinutes)
                ELSE redis
    /\ admitted' = [admitted EXCEPT ![rateCalls[r].key] = @ + 1]
    /\ rateCalls' =
          [rateCalls EXCEPT ![r] =
              [@ EXCEPT !.pc = IF rateCalls[r].limiter = "api"
                               THEN "next" ELSE "done",
                        !.outcome = IF rateCalls[r].limiter = "api"
                                    THEN "none" ELSE "passed"]]
    /\ UNCHANGED <<now, auditVars, webhookVars, options>>

\* How next() ends: with the status of the response, or by throwing an Error
\* (0).
NextResults == {0, 200, 500}

\* createRateLimiter after next(): the counter is decremented for a 2xx
\* response under skipSuccessfulRequests and for an Error under
\* skipFailedRequests; the Error is thrown again.
RateNext(r, result) ==
    /\ rateCalls[r].pc = "next"
    /\ redis' =
          IF \/ result = 200 /\ options.skipSuccessfulRequests
             \/ result = 0 /\ options.skipFailedRequests
          THEN RedisAdd(rateCalls[r].key, -1)
          ELSE redis
    /\ rateCalls' =
          [rateCalls EXCEPT ![r] =
              [@ EXCEPT !.pc = "done",
                        !.outcome = IF result = 0 THEN "threw" ELSE "returned"]]
    /\ UNCHANGED <<now, auditVars, webhookVars, admitted, options>>

RateAtRest ==
    /\ redis = [key \in RateKeys |-> NoKey]
    /\ rateCalls = [r \in Requests |-> IdleCall]
    /\ admitted = [key \in RateKeys |-> 0]

AuditAtRest ==
    /\ documentAuditLog = << >>
    /\ calls = [c \in Callers |-> IdleCall]
    /\ tamper = NoTamper
    /\ reply = NoReply
    /\ document =
          [d \in Documents |->
              UnlockedDocument(IF d = 1 THEN "COMPLETED" ELSE "PENDING")]
    /\ lockCalls = [u \in Users |-> IdleCall]
    /\ cleanup = IdleCall

WebhooksAtRest ==
    /\ webhook =
          [w \in WebhookIds |->
              [exists |-> TRUE,
               isActive |-> TRUE,
               events |-> IF w = 1 THEN WebhookEvents ELSE {"document.completed"},
               teamId |-> IF w = 1 THEN Num(1) ELSE Null,
               secret |-> <<"secret", w>>]]
    /\ webhookDelivery = << >>
    /\ webhookRetry = {}
    /\ retrySeq = 0
    /\ dispatch = IdleDispatch
    /\ dispatched = 0
    /\ retryRun = [r \in Runners |-> IdleRun]
    /\ requests = [count |-> 0]
    /\ attempts = << >>

Tick ==
    /\ now < MaxTime
    /\ now' = now + 1
    /\ UNCHANGED <<rateVars, auditVars, webhookVars>>

InitAudit ==
    /\ now = 0
    /\ AuditAtRest
    /\ WebhooksAtRest
    /\ RateAtRest
    /\ options = DefaultOptions
    /\ storeFaults = 0

\* One caller that logs events of the documents D, with arguments among A, one
\* after the other.
SequentialCalls(D, A) ==
    \/ \E d \in D, e \in EventTypes, a \in A : LogFindFirst(1, d, e, a)
    \/ LogHash(1)
    \/ LogCreate(1)
    \/ Tick

NextAudit == SequentialCalls(Documents, EventArgs)

SpecAudit == InitAudit /\ [][NextAudit]_vars

\* Callers that log their events at the same time.
NextAuditRace ==
    \/ \E c \in Callers, d \in Documents, e \in EventTypes, a \in EventArgs :
          LogFindFirst(c, d, e, a)
    \/ \E c \in Callers : LogHash(c)
    \/ \E c \in Callers : LogCreate(c)
    \/ Tick

SpecAuditRace == InitAudit /\ [][NextAuditRace]_vars

TamperedCallArgs ==
    {Full, [Full EXCEPT !.data = Undefined], [Full EXCEPT !.userId = Undefined]}

\* Sequential calls for one document, and one direct edit of a stored row,
\* after which the trail is only read.
NextTamper ==
    \/ tamper.id = 0 /\ SequentialCalls({1}, TamperedCallArgs)
    \/ \E i \in 1..MaxAuditRows : Tamper(i)

SpecTamper == InitAudit /\ [][NextTamper]_vars

\* Sequential calls for the completed document, and one read of a trail at
\* any point.
NextAuditRead ==
    \/ reply = NoReply /\ SequentialCalls({1}, TamperedCallArgs)
    \/ reply = NoReply /\ \E d \in Documents : GetDocumentAuditTrail(d)
    \/ reply = NoReply /\ \E d \in Documents : GenerateCompletionCertificate(d)

SpecAuditRead == InitAudit /\ [][NextAuditRead]_vars

\* Sequential calls until the store deletes the row of a document or of the
\* user of the events.
NextAuditDelete ==
    \/ /\ \A d \in Documents : document[d].exists
       /\ \A i \in 1..Len(documentAuditLog) : documentAuditLog[i].userId # Null
       /\ SequentialCalls(Documents, {Full, [Full EXCEPT !.data = Undefined]})
    \/ NoCallInFlight /\ \E d \in Documents : DeleteDocument(d)
    \/ NoCallInFlight /\ DeleteUser(Full.userId[2])

SpecAuditDelete == InitAudit /\ [][NextAuditDelete]_vars

\* Users that call lockDocument at any time, also at the same time.
NextLock ==
    \/ \E u \in Users, d \in Documents, m \in LockDurations : LockFindFirst(u, d, m)
    \/ \E u \in Users : LockUpdate(u)
    \/ \E u \in Users : LockLog(u)
    \/ Tick

SpecLock == InitAudit /\ [][NextLock]_vars

\* Users that lock and extend the lock of one document while the cleanup of
\* expired locks runs.
NextLockCleanup ==
    \/ \E u \in Users, m \in LockDurations : LockFindFirst(u, 1, m)
    \/ \E u \in Users : LockUpdate(u)
    \/ \E u \in Users : LockLog(u)
    \/ \E u \in Users, m \in LockDurations : ExtendFindFirst(u, 1, m)
    \/ \E u \in Users : ExtendUpdate(u)
    \/ \E u \in Users : ExtendLog(u)
    \/ CleanupFindMany
    \/ CleanupUpdateMany
    \/ CleanupLog
    \/ Tick

SpecLockCleanup == InitAudit /\ [][NextLockCleanup]_vars

InitAuditFaults ==
    /\ now = 0
    /\ AuditAtRest
    /\ WebhooksAtRest
    /\ RateAtRest
    /\ options = DefaultOptions
    /\ storeFaults = MaxStoreFaults

\* Sequential calls over a store that may reject an operation.
NextAuditFaults ==
    \/ SequentialCalls({1}, TamperedCallArgs)
    \/ LogFindFirstFails(1, 1)
    \/ LogCreateFails(1)

SpecAuditFaults == InitAuditFaults /\ [][NextAuditFaults]_vars

InitRate ==
    /\ now = 0
    /\ AuditAtRest
    /\ WebhooksAtRest
    /\ RateAtRest
    /\ options \in RateOptions
    /\ storeFaults = 0

\* Requests that go through a limiter one at a time.
NextRate ==
    \/ /\ \A q \in Requests : rateCalls[q].pc \in {"idle", "done"}
       /\ \E r \in Requests, limiter \in Limiters : RateGet(r, limiter)
    \/ \E r \in Requests : RateCheck(r)
    \/ \E r \in Requests : RatePass(r)
    \/ \E r \in Requests, result \in NextResults : RateNext(r, result)
    \/ Tick

SpecRate == InitRate /\ [][NextRate]_vars

\* Requests that go through the limiters at the same time.
NextRateRace ==
    \/ \E r \in Requests, limiter \in Limiters : RateGet(r, limiter)
    \/ \E r \in Requests : RateCheck(r)
    \/ \E r \in Requests : RatePass(r)
    \/ \E r \in Requests, result \in NextResults : RateNext(r, result)
    \/ Tick

SpecRateRace == InitRate /\ [][NextRateRace]_vars

Init ==
    /\ now = 0
    /\ AuditAtRest
    /\ WebhooksAtRest
    /\ RateAtRest
    /\ options = DefaultOptions
    /\ storeFaults = 0

\* One triggerWebhooks call at a time, one processRetryQueue run at a time,
\* subscriptions switched on and off, and time passing.
Next ==
    \/ \E e \in WebhookEvents, teamId \in TeamScopes : TriggerWebhooks(e, teamId)
    \/ \E w \in WebhookIds : Deliver(w)
    \/ TriggerReturn
    \/ TriggerDone
    \/ \E w \in WebhookIds, a \in BOOLEAN : UpdateWebhook(w, a)
    \/ ProcessRetryQueue(1)
    \/ \E item \in PendingRetries(1) : ProcessRetry(1, item)
    \/ RetryReturn(1)
    \/ RetryDone(1)
    \/ AdvanceClock

\* The webhook dispatcher over a store that accepts every write.
Spec == Init /\ [][Next]_vars

\* processRetryQueue is called again and again, every call that was started
\* ends (a request is given 10 seconds), and time advances.
RetryFairness ==
    /\ WF_vars(\E w \in WebhookIds : Deliver(w))
    /\ WF_vars(TriggerReturn)
    /\ WF_vars(TriggerDone)
    /\ WF_vars(ProcessRetryQueue(1))
    /\ WF_vars(\E item \in PendingRetries(1) : ProcessRetry(1, item))
    /\ WF_vars(RetryReturn(1))
    /\ WF_vars(RetryDone(1))
    /\ SF_vars(AdvanceClock)

SpecRetryLive == Init /\ [][Next]_vars /\ RetryFairness

InitStoreFaults ==
    /\ now = 0
    /\ AuditAtRest
    /\ WebhooksAtRest
    /\ RateAtRest
    /\ options = DefaultOptions
    /\ storeFaults = MaxStoreFaults

\* As Next, with the subscriptions left as they are.
NextStoreFaults ==
    \/ \E e \in WebhookEvents, teamId \in TeamScopes : TriggerWebhooks(e, teamId)
    \/ \E w \in WebhookIds : Deliver(w)
    \/ TriggerReturn
    \/ TriggerDone
    \/ ProcessRetryQueue(1)
    \/ \E item \in PendingRetries(1) : ProcessRetry(1, item)
    \/ RetryReturn(1)
    \/ RetryDone(1)
    \/ AdvanceClock

\* The webhook dispatcher over a store that may refuse writes.
SpecStoreFaults == InitStoreFaults /\ [][NextStoreFaults]_vars

\* As NextStoreFaults, with the clock passing a minute at any point, also
\* between the deliveries of one triggerWebhooks call.
NextRetryClock ==
    \/ NextStoreFaults
    \/ Tick

\* The webhook dispatcher with tasks that fall due at different times.
SpecRetryClock == Init /\ [][NextRetryClock]_vars

\* As NextStoreFaults, with the payload of the first task damaged at any point.
NextRetryIsolation ==
    \/ NextStoreFaults
    \/ CorruptPayload(1)

\* The webhook dispatcher over a store that may refuse writes and may hold a
\* task whose payload does not parse.
SpecRetryIsolation == InitStoreFaults /\ [][NextRetryIsolation]_vars

\* A triggerWebhooks call for the event of one subscription, and
\* processRetryQueue runs of two callers that may overlap.
NextRetryOverlap ==
    \/ TriggerWebhooks("document.created", Undefined)
    \/ \E w \in WebhookIds : Deliver(w)
    \/ TriggerReturn
    \/ TriggerDone
    \/ \E r \in Runners : ProcessRetryQueue(r)
    \/ \E r \in Runners : \E item \in PendingRetries(r) : ProcessRetry(r, item)
    \/ \E r \in Runners : RetryReturn(r)
    \/ \E r \in Runners : RetryDone(r)
    \/ AdvanceClock

SpecRetryOverlap == Init /\ [][NextRetryOverlap]_vars

\* As NextStoreFaults, with subscriptions deleted at any point.
NextWebhookDelete ==
    \/ NextStoreFaults
    \/ \E w \in WebhookIds : DeleteWebhook(w)

SpecWebhookDelete == Init /\ [][NextWebhookDelete]_vars

\* As NextStoreFaults, with the secrets of the subscriptions replaced.
NextRotate ==
    \/ NextStoreFaults
    \/ \E w \in WebhookIds : RotateSecret(w)

\* The webhook dispatcher while secrets are rotated, over a store that accepts
\* every write.
SpecRotate == Init /\ [][NextRotate]_vars

(***************************************************************************)
(* The audit chain ledger: claims                                          *)
(***************************************************************************)
\* The previousHash that a stored hash was computed over.
HashedAgainst(row) == row.hash[2][Len(row.hash[2])][2]

IdsAscending(t) == \A a, b \in 1..Len(t) : a < b => t[a].id < t[b].id

\* C1 (as claimed): after any sequence of logDocumentEvent calls made one after
\* the other, with no other write to the audit log, every result of
\* getDocumentAuditTrail has isValid = TRUE and lists the entries in call order.
C1_SequentialTrailValid ==
    NoCallInFlight =>
        \A d \in Documents : \A t \in Trails(d) :
            verifyAuditTrailIntegrity(t) /\ IdsAscending(t)

\* C2: once one stored field (userId, recipientId, type, data, createdAt, ip,
\* userAgent or hash) of an entry that is neither first nor last of a trail
\* that verified has been changed, every result of getDocumentAuditTrail for
\* that document has isValid = FALSE.
C2_TamperDetected ==
    (tamper.id # 0 /\ tamper.middle) =>
        IsValidResults(documentAuditLog[tamper.id].documentId) = {FALSE}

C2_Witness ==
    /\ tamper.id # 0
    /\ tamper.middle
    /\ tamper.field = "data"
    /\ Cardinality(RowsOf(documentAuditLog[tamper.id].documentId)) = 3

\* C3 (as claimed): when concurrent logDocumentEvent calls have all completed,
\* no two entries of a document were hashed against the same predecessor hash.
C3_NoSharedPredecessor ==
    NoCallInFlight =>
        \A i, j \in 1..Len(documentAuditLog) :
            (/\ i # j
             /\ documentAuditLog[i].documentId = documentAuditLog[j].documentId)
                => HashedAgainst(documentAuditLog[i])
                      # HashedAgainst(documentAuditLog[j])

(***************************************************************************)
(* The webhook dispatcher: claims                                          *)
(***************************************************************************)
\* A triggerWebhooks call that found subscriptions and has not been taken
\* back by its caller.
InFlight == dispatch.pc \in {"sending", "returned"} /\ dispatch.webhooks # {}

\* The outcomes of its handlers settled so far.
DispatchResults ==
    IF dispatch.pc = "sending" THEN dispatch.results ELSE dispatch.summary.results

\* The outcomes of the handlers of the processRetryQueue run settled so far.
RunResults ==
    CASE retryRun[1].pc = "processing" -> retryRun[1].results
      [] retryRun[1].pc = "returned" /\ retryRun[1].summary.count > 0 ->
            retryRun[1].summary.results
      [] OTHER -> << >>

FailedResult(r) == r.status = "fulfilled" /\ ~r.value.success

\* The WebhookDelivery rows of a subscription for a delivery id.
DeliveriesOf(w, deliveryId) ==
    {i \in 1..Len(webhookDelivery) :
        /\ webhookDelivery[i].webhookId = w
        /\ webhookDelivery[i].deliveryId = deliveryId}

\* The WebhookRetry rows of a subscription for a payload.
TasksOf(w, payload) ==
    {t \in webhookRetry :
        t.webhookId = w /\ t.payload = StringifyPayload(payload)}

TaskStored(id) == \E t \in webhookRetry : t.id = id

\* C4 (as claimed): every step that sends an HTTP request, from triggerWebhooks
\* or from processRetryQueue, appends exactly one WebhookDelivery row, and no
\* step changes or removes a row that is already stored.
C4_EveryAttemptRecorded ==
    [][/\ requests'.count = requests.count + 1
          => Len(webhookDelivery') = Len(webhookDelivery) + 1
       /\ Len(webhookDelivery') >= Len(webhookDelivery)
       /\ SubSeq(webhookDelivery', 1, Len(webhookDelivery)) = webhookDelivery]_vars

\* C5: a subscription whose initial delivery got HTTP 503 has, for that
\* dispatch, exactly one WebhookDelivery row, with success = FALSE and
\* statusCode = 503, and exactly one WebhookRetry row, with retryCount = 0 and
\* nextRetryAt one minute after the failure.
C5_Http503 ==
    InFlight =>
        \A w \in DOMAIN DispatchResults :
            (/\ DispatchResults[w].status = "fulfilled"
             /\ DispatchResults[w].value.statusCode = 503)
            => /\ Cardinality(DeliveriesOf(w, dispatch.payload.id)) = 1
               /\ \A i \in DeliveriesOf(w, dispatch.payload.id) :
                     /\ webhookDelivery[i].success = FALSE
                     /\ webhookDelivery[i].statusCode = 503
               /\ Cardinality(TasksOf(w, dispatch.payload)) = 1
               /\ \A t \in TasksOf(w, dispatch.payload) :
                     t.retryCount = 0 /\ t.nextRetryAt = now + 1

C5_Witness ==
    /\ dispatch.pc = "returned"
    /\ dispatch.webhooks = {1, 2}
    /\ \E w \in dispatch.webhooks :
          /\ DispatchResults[w].status = "fulfilled"
          /\ DispatchResults[w].value.statusCode = 503

\* The status codes of HTTP, and 0 for no response.
StatusCodes == {0} \cup 100..599

\* The retryable failures of the specification: no response, 5xx, 429, 408.
Retryable(statusCode) ==
    \/ statusCode = 0
    \/ statusCode \in 500..599
    \/ statusCode \in {408, 429}

\* C6: shouldRetry accepts exactly no response (0), 5xx, 429 and 408; after a
\* failed initial delivery a WebhookRetry row exists exactly when the failure
\* is retryable; after a failed retry the row is stored only when the failure
\* is retryable, and is stored when it is retryable and below the ceiling.
C6_RetryOnlyRetryable ==
    /\ \A statusCode \in StatusCodes :
          shouldRetry(statusCode) <=> Retryable(statusCode)
    /\ InFlight =>
          \A w \in DOMAIN DispatchResults :
              FailedResult(DispatchResults[w])
              => (TasksOf(w, dispatch.payload) # {}
                    <=> Retryable(DispatchResults[w].value.statusCode))
    /\ \A id \in DOMAIN RunResults :
          (/\ FailedResult(RunResults[id])
           /\ "statusCode" \in DOMAIN RunResults[id].value)
          => /\ TaskStored(id) => Retryable(RunResults[id].value.statusCode)
             /\ (/\ Retryable(RunResults[id].value.statusCode)
                 /\ RunResults[id].value.retryCount < 5)
                => TaskStored(id)

C6_Witness ==
    \E id \in DOMAIN RunResults :
        /\ FailedResult(RunResults[id])
        /\ "statusCode" \in DOMAIN RunResults[id].value
        /\ RunResults[id].value.statusCode = 404
        /\ ~TaskStored(id)

\* C7: a task processed at retryCount 4 whose delivery failed is deleted,
\* whatever the failure, and the retry queue sends at most five requests for
\* any task.
C7_NoSixthAttempt ==
    /\ \A id \in DOMAIN attempts : attempts[id] <= 5
    /\ \A id \in DOMAIN RunResults :
          (/\ FailedResult(RunResults[id])
           /\ "retryCount" \in DOMAIN RunResults[id].value
           /\ RunResults[id].value.retryCount = 4 + 1)
          => ~TaskStored(id)

C7_Witness ==
    \E id \in DOMAIN RunResults :
        /\ FailedResult(RunResults[id])
        /\ "retryCount" \in DOMAIN RunResults[id].value
        /\ RunResults[id].value.retryCount = 4 + 1
        /\ RunResults[id].value.statusCode = 503
        /\ attempts[id] = 5

\* C8: the handler of a due task that processRetryQueue read with a
\* subscription that has isActive = FALSE deletes the task, sends no HTTP
\* request and writes no WebhookDelivery row.
C8_InactiveDropped ==
    [][\A item \in PendingRetries(1) :
          (~item.webhook.isActive /\ item \notin PendingRetries(1)')
          => /\ requests' = requests
             /\ webhookDelivery' = webhookDelivery
             /\ \A t \in webhookRetry' : t.id # item.retry.id]_vars

C8_Witness ==
    \E id \in DOMAIN RunResults :
        /\ FailedResult(RunResults[id])
        /\ "reason" \in DOMAIN RunResults[id].value
        /\ ~TaskStored(id)
        /\ webhookDelivery # << >>

\* C9: when triggerWebhooks returns, every subscription it selected was sent
\* exactly one request and has exactly one entry in the results, whatever the
\* outcomes of the others, a refused write of the delivery row included.
C9_EachSubscriptionOnce ==
    (dispatch.pc = "returned" /\ dispatch.webhooks # {})
    => /\ DOMAIN dispatch.summary.results = dispatch.webhooks
       /\ dispatch.summary.count = Cardinality(dispatch.webhooks)
       /\ \A w \in dispatch.webhooks : dispatch.sent[w] = 1

C9_Witness ==
    /\ dispatch.pc = "returned"
    /\ dispatch.webhooks = {1, 2}
    /\ \E v, w \in dispatch.webhooks :
          /\ dispatch.summary.results[v].status = "rejected"
          /\ DeliveriesOf(v, dispatch.payload.id) = {}
          /\ dispatch.summary.results[w].status = "fulfilled"
          /\ dispatch.summary.results[w].value.success

\* C10: whatever the outcomes of the deliveries, triggerWebhooks returns a
\* summary with success = TRUE in which every failed delivery is an entry of
\* the results and has a WebhookDelivery row with success = FALSE and its
\* status code.
C10_FailuresCaptured ==
    dispatch.pc = "returned"
    => /\ dispatch.summary.success = TRUE
       /\ dispatch.webhooks # {}
          => \A w \in dispatch.webhooks :
                /\ w \in DOMAIN dispatch.summary.results
                /\ dispatch.summary.results[w].status = "fulfilled"
                /\ ~dispatch.summary.results[w].value.success
                   => \E i \in DeliveriesOf(w, dispatch.payload.id) :
                         /\ webhookDelivery[i].success = FALSE
                         /\ webhookDelivery[i].statusCode =
                               dispatch.summary.results[w].value.statusCode

C10_Witness ==
    /\ dispatch.pc = "returned"
    /\ dispatch.webhooks = {1, 2}
    /\ dispatch.summary.results[1].value.statusCode = 0
    /\ dispatch.summary.results[2].value.statusCode = 404

\* HMAC-SHA256 as a function of the key and of the message, both kept.
HmacSha256(secret, body) == <<"hmac-sha256", secret, body>>

\* The subscriptions whose handler ran in this step of triggerWebhooks.
Delivered ==
    IF dispatch.pc = "sending" /\ dispatch'.pc = "sending"
    THEN dispatch.pending \ dispatch'.pending
    ELSE {}

\* The retry tasks whose handler ran in this step of processRetryQueue.
Retried == PendingRetries(1) \ PendingRetries(1)'

MaxRetryCount == 8

\* The delay of the specification, in minutes, after the failure that leaves a
\* task with the given retry count.
ScheduledDelay(retryCount) ==
    CASE retryCount = 0 -> 1
      [] retryCount = 1 -> 5
      [] retryCount = 2 -> 15
      [] retryCount = 3 -> 30
      [] OTHER -> 60

Selected(event, teamId) ==
    {w \in WebhookIds :
        /\ webhook[w].exists
        /\ webhook[w].isActive = TRUE
        /\ event \in webhook[w].events
        /\ teamId # Undefined => webhook[w].teamId = teamId}

\* The subscriptions of the WebhookDelivery and WebhookRetry rows that this
\* step writes.
WrittenFor ==
    {webhookDelivery'[i].webhookId :
        i \in (Len(webhookDelivery) + 1)..Len(webhookDelivery')}
      \cup {t.webhookId : t \in {u \in webhookRetry' : ~TaskStored(u.id)}}

\* C13: triggerWebhooks delivers to exactly the stored subscriptions that are
\* active, subscribed to the event and of the team when one is given; its
\* handlers send requests and write rows for those only; with none selected it
\* returns success with count 0 and writes nothing.
C13_ExactlyMatching ==
    [][/\ (dispatch.pc = "idle" /\ dispatch'.pc # "idle")
          => /\ dispatch'.webhooks = Selected(dispatch'.event, dispatch'.teamId)
             /\ requests' = requests
             /\ webhookDelivery' = webhookDelivery
             /\ webhookRetry' = webhookRetry
             /\ dispatch'.webhooks = {}
                => /\ dispatch'.pc = "returned"
                   /\ dispatch'.summary = [success |-> TRUE, count |-> 0]
       /\ (dispatch.pc # "idle" /\ dispatch' # dispatch)
          => /\ requests' # requests
                => requests'.last.webhookId \in dispatch.webhooks
             /\ WrittenFor \subseteq dispatch.webhooks]_vars

C13_Witness ==
    /\ dispatch.pc = "returned"
    /\ dispatch.event = "document.completed"
    /\ dispatch.teamId = Undefined
    /\ dispatch.webhooks = {1}
    /\ ~webhook[2].isActive
    /\ requests.count = 1
    /\ \A i \in 1..Len(webhookDelivery) : webhookDelivery[i].webhookId = 1

\* The WebhookDelivery rows that this step writes.
NewDeliveries ==
    {webhookDelivery'[i] : i \in (Len(webhookDelivery) + 1)..Len(webhookDelivery')}

\* The id in the stored payload text of a retry task.
CorrelationId(t) == t.payload[1][2]

\* C14: a triggerWebhooks call has one id; the X-Documenso-Delivery header of
\* each of its requests, each WebhookDelivery row it writes and the payload of
\* each retry task it creates carry that id; a retry task keeps its payload,
\* and every request and WebhookDelivery row of a retry carries the id of the
\* task's payload.
C14_OneCorrelationId ==
    [][/\ \A w \in Delivered :
             /\ requests'.last.delivery = dispatch.payload.id
             /\ \A row \in NewDeliveries : row.deliveryId = dispatch.payload.id
             /\ \A t \in webhookRetry' :
                   ~TaskStored(t.id) => CorrelationId(t) = dispatch.payload.id
       /\ \A item \in Retried :
             /\ requests' # requests
                => requests'.last.delivery = CorrelationId(item.retry)
             /\ \A row \in NewDeliveries :
                   row.deliveryId = CorrelationId(item.retry)
       /\ \A t \in webhookRetry, u \in webhookRetry' :
             t.id = u.id => u.payload = t.payload
       /\ dispatch'.pc = "sending" => dispatch'.payload.id = generateId(dispatched')]_vars

C14_Witness ==
    /\ requests.count > 0
    /\ requests.last.retryCount >= 1
    /\ \E i, j \in 1..Len(webhookDelivery) :
          /\ i < j
          /\ webhookDelivery[i].webhookId = webhookDelivery[j].webhookId
          /\ webhookDelivery[i].deliveryId = requests.last.delivery
          /\ webhookDelivery[j].deliveryId = requests.last.delivery
          /\ ~webhookDelivery[i].success
          /\ webhookDelivery[j].success

\* The ids of a sequence of rows.
IdsOf(rows) == {rows[i].id : i \in 1..Len(rows)}

\* C15: getDocumentAuditTrail of an existing document returns, never raises,
\* and returns every stored entry of the document along with isValid, FALSE
\* for a trail that does not verify; generateCompletionCertificate of a
\* completed document fails with BAD_REQUEST exactly when the trail it read
\* does not verify.
C15_InvalidReported ==
    /\ (reply.op = "getDocumentAuditTrail" /\ document[reply.documentId].exists)
       => /\ reply.outcome = "returned"
          /\ IdsOf(reply.auditLogs) = {documentAuditLog[i].id : i \in RowsOf(reply.documentId)}
          /\ Len(reply.auditLogs) = Cardinality(RowsOf(reply.documentId))
          /\ reply.isValid = verifyAuditTrailIntegrity(reply.stored)
    /\ (/\ reply.op = "generateCompletionCertificate"
        /\ document[reply.documentId].exists
        /\ document[reply.documentId].status = "COMPLETED")
       => /\ reply.outcome \in {"returned", "BAD_REQUEST"}
          /\ reply.outcome = "BAD_REQUEST"
                <=> ~verifyAuditTrailIntegrity(reply.stored)

C15_Witness ==
    /\ reply.op = "generateCompletionCertificate"
    /\ reply.outcome = "BAD_REQUEST"
    /\ Len(reply.stored) = 2

\* C16: a step in which the store rejects the findFirst or the create of a
\* logDocumentEvent call ends that call with the error, without another
\* access to the store, and leaves the audit log as it was.
C16_AppendFailurePropagates ==
    [][storeFaults' # storeFaults
         => /\ reply'.op = "logDocumentEvent"
            /\ reply'.outcome = "threw"
            /\ calls'[reply'.caller].pc = "idle"
            /\ documentAuditLog' = documentAuditLog]_vars

C16_Witness ==
    /\ reply.op = "logDocumentEvent"
    /\ reply.outcome = "threw"
    /\ reply.at = "create"
    /\ calls[reply.caller].pc = "idle"
    /\ Len(documentAuditLog) = 1

\* C17 (as claimed): no step changes or removes a stored audit entry; the
\* entries of a document only grow.
C17_AppendOnly ==
    [][/\ Len(documentAuditLog') >= Len(documentAuditLog)
       /\ SubSeq(documentAuditLog', 1, Len(documentAuditLog)) = documentAuditLog]_vars

\* The value under a key in the text that a stored hash was computed over, or
\* that the key is not in the text.
HashedField(row, key) ==
    LET text == row.hash[2]
        at == {k \in 1..Len(text) : text[k][1] = key}
    IN IF at = {} THEN <<"omitted", "">> ELSE text[CHOOSE k \in at : TRUE][2]

OptionalFields == {"userId", "recipientId", "data", "ip", "userAgent"}

\* The stored value of an optional field of an entry.
StoredField(row, key) ==
    CASE key = "userId" -> row.userId
      [] key = "recipientId" -> row.recipientId
      [] key = "data" -> row.data
      [] key = "ip" -> row.ip
      [] key = "userAgent" -> row.userAgent

\* C18 (as claimed): for a stored entry with an absent optional field, hashed
\* at the time it was stored, the text hashed at append time has each absent
\* field under its key, as the one text hashed at verification time has, and
\* the recomputed hash is the stored one.
C18_AbsentFieldsSameInput ==
    \A i \in 1..Len(documentAuditLog) :
        LET row == documentAuditLog[i]
        IN (/\ \E key \in OptionalFields : StoredField(row, key) = Null
            /\ HashedField(row, "timestamp") = ToISOString(row.createdAt))
           => /\ \A key \in OptionalFields :
                    HashedField(row, key) # <<"omitted", "">>
              /\ createEntryHash(EntryDataOfRow(row, HashedAgainst(row))) = row.hash

\* The ids that WebhookRetry rows can get.
TaskIds == 1..(MaxDispatches * Cardinality(WebhookIds))

\* C19: while processRetryQueue is called again and again and time advances,
\* every stored retry task is eventually deleted, and no task is sent more
\* than five retry requests.
C19_RetryingEnds ==
    /\ [](\A id \in DOMAIN attempts : attempts[id] <= 5)
    /\ \A id \in TaskIds : TaskStored(id) ~> ~TaskStored(id)

C19_Witness ==
    /\ webhookRetry = {}
    /\ retrySeq = 2
    /\ attempts[1] = 5
    /\ attempts[2] = 0
    /\ ~webhook[2].isActive

\* The users whose last lockDocument call on a document returned a lock that
\* has not expired.
BelievedHolders(documentId) ==
    {u \in Users :
        /\ lockCalls[u].pc = "returned"
        /\ lockCalls[u].documentId = documentId
        /\ lockCalls[u].lockExpiresAt > now}

\* C20 (as claimed): at any time at most one user has been returned an
\* unexpired lock on a document, also when users call lockDocument at the same
\* time.
C20_OneLockHolder ==
    \A d \in Documents : Cardinality(BelievedHolders(d)) <= 1

\* The outcome of the handler of a task that ran in this step.
ResultOf(item) == retryRun'[1].results[item.retry.id]

\* The stored rows of a task after this step.
RowsAfter(item) == {t \in webhookRetry' : t.id = item.retry.id}

\* C22: a step of processRetryQueue in which the retry of a task with
\* retryCount below 4 fails with a retryable failure keeps the task, with
\* retryCount one more, nextRetryAt the time of the failure plus the delay of
\* the backoff table for the new retryCount, lastError the reason of the
\* failure, and the subscription and the payload it had.
C22_FailedRetryRescheduled ==
    [][\A item \in Retried :
          (/\ FailedResult(ResultOf(item))
           /\ "statusCode" \in DOMAIN ResultOf(item).value
           /\ Retryable(ResultOf(item).value.statusCode)
           /\ item.retry.retryCount < 4)
          => /\ Cardinality(RowsAfter(item)) = 1
             /\ \A t \in RowsAfter(item) :
                   /\ t.retryCount = item.retry.retryCount + 1
                   /\ t.nextRetryAt = now + ScheduledDelay(t.retryCount)
                   /\ t.lastError = StatusText(ResultOf(item).value.statusCode)
                   /\ t.lastError = ResultOf(item).value.error
                   /\ t.webhookId = item.retry.webhookId
                   /\ t.payload = item.retry.payload]_vars

C22_Witness ==
    \E t \in webhookRetry :
        /\ t.retryCount = 2
        /\ t.lastError = "Service Unavailable"
        /\ attempts[t.id] = 2
        /\ t.nextRetryAt = now + 15
        /\ RunResults # << >>

\* C23: a step of processRetryQueue in which the retry of a task succeeds
\* writes exactly one WebhookDelivery row, with success = TRUE, for the task's
\* subscription and delivery id, and deletes the task; a task that is gone is
\* never stored again and is sent no further request.
C23_DeliveredOnce ==
    [][/\ \A item \in Retried :
             (ResultOf(item).status = "fulfilled" /\ ResultOf(item).value.success)
             => /\ Len(webhookDelivery') = Len(webhookDelivery) + 1
                /\ \A row \in NewDeliveries :
                      /\ row.success = TRUE
                      /\ row.webhookId = item.retry.webhookId
                      /\ row.deliveryId = CorrelationId(item.retry)
                /\ RowsAfter(item) = {}
       /\ \A id \in DOMAIN attempts :
             ~TaskStored(id)
             => /\ attempts'[id] = attempts[id]
                /\ \A t \in webhookRetry' : t.id # id]_vars

\* A task was delivered by its third retry, and a later run found nothing due.
C23_Witness ==
    /\ retrySeq = 1
    /\ attempts[1] = 3
    /\ webhookRetry = {}
    /\ Len(webhookDelivery) = 2
    /\ webhookDelivery[2].success
    /\ retryRun[1].pc = "returned"
    /\ retryRun[1].summary.count = 0

\* The ids of the tasks that the processRetryQueue run in flight read.
ReadIds ==
    IF retryRun[1].pc = "processing"
    THEN {item.retry.id : item \in retryRun[1].retries}
    ELSE {}

\* C24: the tasks that a processRetryQueue run reads are exactly the stored
\* ones with nextRetryAt <= now and retryCount < 5, and no step of the run
\* sends a request for another task or changes or deletes another task.
C24_OnlyDueTasks ==
    [][/\ (retryRun[1].pc = "idle" /\ retryRun'[1].pc = "processing")
          => /\ {item.retry : item \in retryRun'[1].retries}
                  = {t \in webhookRetry : t.nextRetryAt <= now /\ t.retryCount < 5}
             /\ webhookRetry' = webhookRetry
             /\ requests' = requests
       /\ (retryRun[1].pc # "idle" /\ retryRun'[1] # retryRun[1])
          => \A t \in webhookRetry :
                t.id \notin ReadIds
                => /\ t \in webhookRetry'
                   /\ attempts'[t.id] = attempts[t.id]]_vars

\* A run has handled the one task that was due when it started and returned,
\* while a task that was due a minute later is stored untouched.
C24_Witness ==
    /\ retryRun[1].pc = "returned"
    /\ retryRun[1].summary.count = 1
    /\ DOMAIN retryRun[1].summary.results = {1}
    /\ \E t \in webhookRetry :
          /\ t.id = 2
          /\ t.retryCount = 0
          /\ t.nextRetryAt > now
          /\ attempts[2] = 0

\* The ids of the tasks that a run that has returned had read.
ReturnedIds == {item.retry.id : item \in retryRun[1].retries}

\* C25: the handler of each task that a processRetryQueue run read runs
\* whatever the outcomes of the other handlers (a failed delivery, a stored
\* payload that does not parse, a write that the store refuses): a handler
\* step leaves the other tasks, their results and their pending handlers as
\* they are, and the run returns success = TRUE with count and results having
\* one entry per task read.
C25_TasksIsolated ==
    /\ [](retryRun[1].pc = "returned"
            => /\ retryRun[1].summary.success = TRUE
               /\ retryRun[1].summary.count = Cardinality(ReturnedIds)
               /\ retryRun[1].summary.count > 0
                  => DOMAIN retryRun[1].summary.results = ReturnedIds)
    /\ [][\A item \in Retried :
             /\ PendingRetries(1)' = PendingRetries(1) \ {item}
             /\ \A t \in webhookRetry : t.id # item.retry.id => t \in webhookRetry'
             /\ \A id \in DOMAIN retryRun[1].results :
                   retryRun'[1].results[id] = retryRun[1].results[id]
             /\ item.retry.id \in DOMAIN retryRun'[1].results]_vars

\* A run of two due tasks returned: the handler of the task whose payload does
\* not parse sent nothing and rescheduled it, the other task was delivered.
C25_Witness ==
    /\ retryRun[1].pc = "returned"
    /\ retryRun[1].summary.count = 2
    /\ \E a, b \in ReturnedIds :
          /\ FailedResult(retryRun[1].summary.results[a])
          /\ attempts[a] = 0
          /\ \E t \in webhookRetry :
                t.id = a /\ t.payload = MalformedPayload /\ t.retryCount = 1
          /\ retryRun[1].summary.results[b].status = "fulfilled"
          /\ retryRun[1].summary.results[b].value.success
          /\ ~TaskStored(b)

\* C26 (as claimed): every result of getDocumentAuditTrail has isValid = TRUE
\* for a document whose audit log holds entries written by DocumentLockService,
\* that is, each such entry carries a hash that fits the chain.
C26_ForeignEntriesVerify ==
    \A d \in Documents :
        \A t \in Trails(d) :
            (\E i \in 1..Len(t) : t[i].type = Str("DOCUMENT_LOCKED"))
            => /\ verifyAuditTrailIntegrity(t)
               /\ \A i \in 1..Len(t) : t[i].hash # Null

\* The retry tasks whose handler ran in this step of the run of r.
RetriedBy(r) == PendingRetries(r) \ PendingRetries(r)'

\* C27 (as claimed): when processRetryQueue runs overlap, a request for a task
\* is sent only when as many requests were sent for it before as its
\* retryCount says, so never twice at one retryCount, and no handler finds the
\* task deleted by the other run when it writes.
C27_OncePerDueTime ==
    [][\A r \in Runners : \A item \in RetriedBy(r) :
          /\ attempts'[item.retry.id] # attempts[item.retry.id]
             => attempts[item.retry.id] = item.retry.retryCount
          /\ retryRun'[r].results[item.retry.id].status # "rejected"]_vars

\* C28: every stored retry task has a retryCount from 0 to 4 and the
\* subscription it references is stored; no step lowers the retryCount of a
\* task; a task is created only by the handler of a failed initial delivery,
\* for the subscription of that handler, with retryCount 0.
C28_RetryTaskRange ==
    /\ [](\A t \in webhookRetry :
            /\ t.retryCount \in 0..4
            /\ webhook[t.webhookId].exists)
    /\ [][/\ \A t \in webhookRetry, u \in webhookRetry' :
                t.id = u.id => u.retryCount >= t.retryCount
          /\ \A u \in webhookRetry' :
                ~TaskStored(u.id)
                => /\ u.retryCount = 0
                   /\ u.webhookId \in Delivered
                   /\ FailedResult(dispatch'.results[u.webhookId])]_vars

\* The tasks of a deleted subscription went with it, and the task of the
\* other subscription has reached retryCount 4.
C28_Witness ==
    /\ ~webhook[1].exists
    /\ retrySeq = 2
    /\ \A t \in webhookRetry : t.webhookId = 2 /\ t.retryCount = 4
    /\ webhookRetry # {}
    /\ attempts[1] > 0

\* The documents whose lock the cleanup clears in this step.
Released ==
    IF cleanup.pc = "update" /\ cleanup'.pc = "log"
    THEN {d \in Documents : document[d].isLocked /\ ~document'[d].isLocked}
    ELSE {}

\* C29 (as claimed): the step of cleanupExpiredLocks that unlocks clears only
\* locks that are expired at that moment, also when lockDocument or extendLock
\* wrote the row after the cleanup read it.
C29_OnlyExpiredReleased ==
    [][\A d \in Released :
          /\ document[d].lockExpiresAt # Null
          /\ document[d].lockExpiresAt[2] < now]_vars

(***************************************************************************)
(* The rate limiters: claims                                               *)
(***************************************************************************)
\* C21 (as claimed): with nothing skipped, a limiter lets at most max requests
\* of a key through within one window, also when requests of the key are
\* handled at the same time.
C21_AtMostMax ==
    (~options.skipSuccessfulRequests /\ ~options.skipFailedRequests)
    => \A key \in RateKeys : admitted[key] <= RateMax

\* The requests that a limiter turns away in this step.
Rejected429 ==
    {r \in Requests :
        /\ rateCalls[r].pc = "got"
        /\ rateCalls'[r].pc = "done"
        /\ rateCalls'[r].outcome \in {"TOO_MANY_REQUESTS", "handled"}}

\* C30 (as claimed): a step in which createRateLimiter turns a request away
\* because the count it read is at the limit leaves the stored counter of the
\* key as it was, whatever skipFailedRequests and skipSuccessfulRequests are.
C30_RejectionKeepsCounter ==
    [][Rejected429 # {} => redis' = redis]_vars

====